---- MODULE Spec2Model ----
(***************************************************************************)
(* SmartScale web app: the scale ingestion pipeline.                       *)
(*                                                                         *)
(*   src/src/bluetooth.js   requestScale, subscribeToWeight,               *)
(*                          parseScaleData, calculateBMI                   *)
(*   src/src/db.js          addMeasurement, getMeasurements                *)
(*   src/unnamed/part_000   App: startWeighing and its onData callback     *)
(*                                                                         *)
(* One startWeighing invocation is a "session".  A session walks through   *)
(* requestScale and the awaits of subscribeToWeight; each await is one     *)
(* action whose outcome (resolve / reject) the platform chooses.  Every    *)
(* notification event runs the registered listener to completion, and      *)
(* every onData call starts an async callback instance that proceeds       *)
(* through its own awaits.                                                 *)
(*                                                                         *)
(* Weights are kept in hundredths (the code's Math.round(weight*100)), and *)
(* the two floating point multiplications in front of that Math.round are  *)
(* computed as IEEE-754 doubles, bit for bit.                              *)
(***************************************************************************)
EXTENDS Integers, Sequences, FiniteSets, TLC

\* ------------------------------------------------------------------ bounds
MaxSessions == 1      \* startWeighing invocations per behaviour
MaxFrames   == 2      \* notification events per behaviour
MaxHiByte   == 2      \* largest byte 2 of a frame given to the decoder alone
MaxAdds     == 3      \* addMeasurement calls given to the store alone
MaxDeletes  == 1      \* handleDelete invocations per behaviour

Sessions == 1..MaxSessions

\* --------------------------------------------------------------- constants
WEIGHT_SCALE_SERVICE_UUID       == 6173     \* 0x181d
BODY_COMPOSITION_SERVICE_UUID   == 6171     \* 0x181b
WEIGHT_MEASUREMENT_CHAR_UUID    == 10909    \* 0x2a9d
BODY_COMP_MEASUREMENT_CHAR_UUID == 10908    \* 0x2a9c

MinFrameLength == 3                         \* data.byteLength < 3
HistoryLimit   == 10                        \* getMeasurements(10)
Undefined      == 0                         \* let service; let charUUID;
NoWeight       == -1                        \* useState(null)

Null     == [isNull |-> TRUE]               \* parseScaleData's null
Unparsed == [pending |-> TRUE]              \* no event handled yet

\* ---------------------------------------------- IEEE-754 double arithmetic
\* A non-negative double is [m, e]: the natural number m, little-endian in
\* limbs of LimbBits bits, times 2^e.
LimbBits     == 14
Base         == 16384
MantissaBits == 53

\* 0.005 = 0x1.47ae147ae147bp-8 = 5764607523034235 * 2^-60
\* 0.01  = 0x1.47ae147ae147bp-7 = 5764607523034235 * 2^-59
Mantissa005  == <<5243, 7864, 11796, 1310>>
KgFactor     == [m |-> Mantissa005, e |-> -60]
LbsFactor    == [m |-> Mantissa005, e |-> -59]

RECURSIVE CarryLimbs(_)
CarryLimbs(c) ==
    IF c = 0 THEN <<>> ELSE <<c % Base>> \o CarryLimbs(c \div Base)

\* limbs * k + carry, exactly
RECURSIVE MulSmall(_, _, _)
MulSmall(limbs, k, carry) ==
    IF limbs = <<>> THEN CarryLimbs(carry)
    ELSE LET p == Head(limbs) * k + carry
         IN  <<p % Base>> \o MulSmall(Tail(limbs), k, p \div Base)

RECURSIVE Trim(_)
Trim(limbs) ==
    IF limbs # <<>> /\ limbs[Len(limbs)] = 0
    THEN Trim(SubSeq(limbs, 1, Len(limbs) - 1))
    ELSE limbs

RECURSIVE BitsOf(_)
BitsOf(n) == IF n = 0 THEN 0 ELSE 1 + BitsOf(n \div 2)

BitLen(limbs) ==
    LET t == Trim(limbs)
    IN  IF t = <<>> THEN 0 ELSE LimbBits * (Len(t) - 1) + BitsOf(t[Len(t)])

RECURSIVE Pow2(_)
Pow2(n) == IF n = 0 THEN 1 ELSE 2 * Pow2(n - 1)

\* bit k (from 0) of limbs
Bit(limbs, k) ==
    LET i == k \div LimbBits + 1
    IN  IF i > Len(limbs) THEN 0
        ELSE (limbs[i] \div Pow2(k % LimbBits)) % 2

\* some bit below bit k is set
AnyBelow(limbs, k) ==
    \E i \in 1..Len(limbs) :
        \/ i - 1 < k \div LimbBits /\ limbs[i] # 0
        \/ i - 1 = k \div LimbBits /\ limbs[i] % Pow2(k % LimbBits) # 0

IsOdd(limbs) == Bit(limbs, 0) = 1

RECURSIVE AddOne(_)
AddOne(limbs) ==
    IF limbs = <<>> THEN <<1>>
    ELSE IF Head(limbs) + 1 < Base THEN <<Head(limbs) + 1>> \o Tail(limbs)
    ELSE <<0>> \o AddOne(Tail(limbs))

\* for s > 0: q = floor(limbs / 2^s); guard = the last bit shifted out;
\* sticky = some earlier bit shifted out was set
ShiftRight(limbs, s) ==
    LET ls == s \div LimbBits
        bs == s % LimbBits
        n  == Len(limbs)
    IN  [q      |-> [i \in 1..(n - ls) |->
                       (limbs[i + ls] \div Pow2(bs))
                       + (IF i + ls < n
                          THEN (limbs[i + ls + 1] % Pow2(bs))
                               * Pow2(LimbBits - bs)
                          ELSE 0)],
         guard  |-> Bit(limbs, s - 1) = 1,
         sticky |-> AnyBelow(limbs, s - 1)]

\* round an exact product to a 53-bit mantissa, ties to even
RoundToDouble(x) ==
    LET s == BitLen(x.m) - MantissaBits
    IN  IF s <= 0 THEN [m |-> Trim(x.m), e |-> x.e]
        ELSE LET r  == ShiftRight(x.m, s)
                 up == r.guard /\ (r.sticky \/ IsOdd(r.q))
             IN  [m |-> Trim(IF up THEN AddOne(r.q) ELSE r.q), e |-> x.e + s]

\* the double x times the integer k (k itself a double), as one IEEE multiply
FMulInt(x, k) == RoundToDouble([m |-> MulSmall(x.m, k, 0), e |-> x.e])

RECURSIVE ToInt(_)
ToInt(limbs) ==
    IF limbs = <<>> THEN 0 ELSE Head(limbs) + Base * ToInt(Tail(limbs))

\* Math.round of a non-negative double below 2^31 (so e < 0 unless it is 0):
\* the nearest integer, a tie going up
MathRound(x) ==
    IF x.m = <<>> THEN 0
    ELSE LET r == ShiftRight(x.m, 0 - x.e)
         IN  ToInt(Trim(r.q)) + (IF r.guard THEN 1 ELSE 0)

\* Math.round of -x for a positive double x below 2^31: the nearest integer,
\* a tie going up, towards zero
MathRoundNeg(x) ==
    IF x.m = <<>> THEN 0
    ELSE LET r == ShiftRight(x.m, 0 - x.e)
         IN  0 - (ToInt(Trim(r.q)) + (IF r.guard /\ r.sticky THEN 1 ELSE 0))

\* the integer n, 0 <= n < 2^31, as a double
FromInt(n) == [m |-> CarryLimbs(n), e |-> 0]

Abs(n) == IF n < 0 THEN 0 - n ELSE n

\* a >= b, for trimmed limb sequences
RECURSIVE GreaterEq(_, _)
GreaterEq(a, b) ==
    IF Len(a) # Len(b) THEN Len(a) > Len(b)
    ELSE IF a = <<>> THEN TRUE
    ELSE IF a[Len(a)] # b[Len(b)] THEN a[Len(a)] > b[Len(b)]
    ELSE GreaterEq(SubSeq(a, 1, Len(a) - 1), SubSeq(b, 1, Len(b) - 1))

\* a - b - borrow for a >= b + borrow, limb by limb
RECURSIVE SubLimbs(_, _, _)
SubLimbs(a, b, borrow) ==
    IF a = <<>> THEN <<>>
    ELSE LET d == Head(a) - (IF b = <<>> THEN 0 ELSE Head(b)) - borrow
         IN  <<(d + Base) % Base>>
             \o SubLimbs(Tail(a), IF b = <<>> THEN <<>> ELSE Tail(b),
                         IF d < 0 THEN 1 ELSE 0)

\* a + b + carry, limb by limb
RECURSIVE AddLimbs(_, _, _)
AddLimbs(a, b, carry) ==
    IF a = <<>> /\ b = <<>> THEN CarryLimbs(carry)
    ELSE LET t == (IF a = <<>> THEN 0 ELSE Head(a))
                  + (IF b = <<>> THEN 0 ELSE Head(b)) + carry
         IN  <<t % Base>>
             \o AddLimbs(IF a = <<>> THEN <<>> ELSE Tail(a),
                         IF b = <<>> THEN <<>> ELSE Tail(b), t \div Base)

\* limbs * 2^n
ShiftLeft(limbs, n) ==
    [i \in 1..(n \div LimbBits) |-> 0]
    \o MulSmall(limbs, Pow2(n % LimbBits), 0)

\* a * b, limb by limb
RECURSIVE MulLimbs(_, _)
MulLimbs(a, b) ==
    IF b = <<>> THEN <<>>
    ELSE AddLimbs(MulSmall(a, Head(b), 0), <<0>> \o MulLimbs(a, Tail(b)), 0)

\* the double x times the double y, as one IEEE multiply
FMul(x, y) == RoundToDouble([m |-> MulLimbs(x.m, y.m), e |-> x.e + y.e])

\* n more quotient bits of rem / b, for rem < b and n <= LimbBits: the bits
\* as a number q, and the remainder left
RECURSIVE DivBits(_, _, _, _)
DivBits(q, rem, b, n) ==
    IF n = 0 THEN [q |-> q, rem |-> rem]
    ELSE LET r2  == Trim(MulSmall(rem, 2, 0))
             bit == GreaterEq(r2, b)
             q2  == 2 * q + (IF bit THEN 1 ELSE 0)
             r3  == IF bit THEN Trim(SubLimbs(r2, b, 0)) ELSE r2
         IN  IF q2 >= 0 /\ Len(r3) >= 0
             THEN DivBits(q2, r3, b, n - 1)
             ELSE [q |-> q, rem |-> rem]

\* k more quotient limbs of rem / b, for rem < b: the limbs q, lowest first,
\* and the remainder left
RECURSIVE DivLimbs(_, _, _)
DivLimbs(rem, b, k) ==
    IF k = 0 THEN [q |-> <<>>, rem |-> rem]
    ELSE LET top  == DivBits(0, rem, b, LimbBits)
             rest == DivLimbs(top.rem, b, k - 1)
         IN  [q |-> rest.q \o <<top.q>>, rem |-> rest.rem]

\* quotient limbs developed below the leading bit: 56 bits, more than the
\* 53 of a mantissa plus the rounding bit
QuotientLimbs == 4

\* the quotient bits q0.q1q2... of a / b for a and b of the same bit length,
\* with a bit below them that is set when a remainder is left
Quotient(a, b) ==
    LET q0 == GreaterEq(a, b)
        d  == DivLimbs(IF q0 THEN Trim(SubLimbs(a, b, 0)) ELSE a,
                       b, QuotientLimbs)
    IN  MulSmall(d.q \o <<IF q0 THEN 1 ELSE 0>>, 2,
                 IF d.rem = <<>> THEN 0 ELSE 1)

\* the double x divided by the double y, x >= 0 and y > 0, as one IEEE
\* divide: the mantissas are aligned to the same bit length, the quotient
\* is developed past the mantissa width and rounded once
FDiv(x, y) ==
    LET la == BitLen(x.m)
        lb == BitLen(y.m)
    IN  IF la = 0 \/ lb = 0 THEN x
        ELSE LET l == IF la > lb THEN la ELSE lb
                 a == Trim(ShiftLeft(x.m, l - la))
                 b == Trim(ShiftLeft(y.m, l - lb))
             IN  RoundToDouble(
                    [m |-> Quotient(a, b),
                     e |-> (x.e - (l - la)) - (y.e - (l - lb))
                           - QuotientLimbs * LimbBits - 1])

\* ------------------------------------------------------------ the decoder
getUint8(data, off) == data[off + 1]

\* getUint16(off, true): little endian
getUint16LE(data, off) == data[off + 1] + 256 * data[off + 2]

\* Math.round(weight * 100), weight = rawWeight * 0.005 or rawWeight * 0.01
WeightHundredths(rawWeight, isLbs) ==
    MathRound(FMulInt(FMulInt(IF isLbs THEN LbsFactor ELSE KgFactor,
                              rawWeight), 100))

\* variant: a short frame decodes to an empty reading instead of null
parseScaleData_ShortAsZero(data) ==
    IF Len(data) < MinFrameLength
    THEN [weight |-> 0, isStable |-> TRUE, unit |-> "kg"]
    ELSE LET flags     == getUint8(data, 0)
             isLbs     == (flags % 2) # 0
             rawWeight == getUint16LE(data, 1)
         IN  [weight   |-> WeightHundredths(rawWeight, isLbs),
              isStable |-> TRUE,
              unit     |-> IF isLbs THEN "lbs" ELSE "kg"]

parseScaleData(data) ==
    IF Len(data) < MinFrameLength THEN Null
    ELSE LET flags     == getUint8(data, 0)
             isLbs     == (flags % 2) # 0
             rawWeight == getUint16LE(data, 1)
         IN  [weight   |-> WeightHundredths(rawWeight, isLbs),
              isStable |-> TRUE,
              unit     |-> IF isLbs THEN "lbs" ELSE "kg"]

\* variant: if (result && result.weight) onData(result)
Truthy_NonZero(r) == r # Null /\ r.weight # 0

\* if (result) onData(result): an object is truthy, null is not
Truthy(r) == r # Null

\* ------------------------------------------------------------- the metric
\* a JavaScript value handed to calculateBMI: a number (weights in
\* hundredths of a kg, heights in cm), or no number at all
Absent == [absent |-> TRUE]                 \* undefined, null, NaN

Num(n) == [n |-> n]

\* !v: undefined, null, NaN and 0 are falsy, every other number is truthy
Falsy(v) == v = Absent \/ v.n = 0

\* calculateBMI, the result in tenths (Math.round(bmi * 10)): the doubles
\* are kept as magnitudes, the quotient has the sign of weight since
\* heightInMeters * heightInMeters is positive
calculateBMI(weight, height) ==
    IF Falsy(weight) \/ Falsy(height) THEN 0
    ELSE LET heightInMeters == FDiv(FromInt(Abs(height.n)), FromInt(100))
             kg  == FDiv(FromInt(Abs(weight.n)), FromInt(100))
             bmi == FDiv(kg, FMul(heightInMeters, heightInMeters))
             b10 == FMulInt(bmi, 10)
         IN  IF weight.n < 0 THEN MathRoundNeg(b10) ELSE MathRound(b10)

\* variant: if (bmi <= 18.5) ... if (bmi <= 25) ... if (bmi <= 30)
getBMICategory_Inclusive(bmi) ==
    IF bmi <= 1850
    THEN [label |-> "Podvaha", color |-> "#60a5fa", status |-> "blue"]
    ELSE IF bmi <= 2500
    THEN [label |-> "Normalna", color |-> "#4ade80", status |-> "green"]
    ELSE IF bmi <= 3000
    THEN [label |-> "Nadvaha", color |-> "#fb923c", status |-> "orange"]
    ELSE [label |-> "Obezita", color |-> "#f87171", status |-> "red"]

\* getBMICategory, bmi in hundredths: 18.5, 25 and 30 are doubles, and a
\* number of hundredths is on the same side of them as its double
getBMICategory(bmi) ==
    IF bmi < 1850
    THEN [label |-> "Podvaha", color |-> "#60a5fa", status |-> "blue"]
    ELSE IF bmi < 2500
    THEN [label |-> "Normalna", color |-> "#4ade80", status |-> "green"]
    ELSE IF bmi < 3000
    THEN [label |-> "Nadvaha", color |-> "#fb923c", status |-> "orange"]
    ELSE [label |-> "Obezita", color |-> "#f87171", status |-> "red"]

\* no getBMICategory call made yet
NoCategory == [label |-> "", color |-> "", status |-> ""]

\* no db.js call made yet
NoCall == [op |-> "none"]

\* ------------------------------------------------------------------ state
VARIABLES
    hasBluetooth,   \* navigator.bluetooth is present
    userHeight,     \* user.height
    scanning,       \* App state: scanning
    latestWeight,   \* App state: latestWeight (hundredths)
    measurements,   \* App state: measurements, the displayed list
    alerts,         \* alert() calls made by startWeighing's catch block
    store,          \* db.measurements, in insertion order
    nextId,         \* the ++id auto-increment
    clock,          \* what new Date() returns
    nSessions,      \* startWeighing invocations so far
    pc,             \* per session: the await the invocation is suspended at
    choosers,       \* per session: requestDevice calls (chooser openings)
    connected,      \* per session: server.connected
    notifying,      \* per session: the characteristic is notifying
    listening,      \* per session: the valuechanged listener is registered
    service,        \* per session: let service (its UUID)
    charUUID,       \* per session: let charUUID
    gattLog,        \* per session: GATT requests made, with their outcome
    handle,         \* per session: the teardown closure was returned
    teardowns,      \* per session: invocations of the teardown closure
    raised,         \* per session: a teardown invocation threw
    dropped,        \* per session: notification events not fired because
                    \* the server was no longer connected
    frameLog,       \* per session: notification frames, in arrival order
    onDataLog,      \* per session: arguments of the onData calls, in order
    cbs,            \* onData callback instances (async), in creation order
    value,          \* the listener's const value (last event)
    result,         \* the listener's const result (last event)
    bmiWeight,      \* calculateBMI called on its own: the weight argument
    bmiHeight,      \* calculateBMI called on its own: the height argument
    bmiResult,      \* calculateBMI called on its own: the value returned
    categoryArg,    \* getBMICategory called on its own: the bmi argument
    category,       \* getBMICategory called on its own: the value returned
    dbCall,         \* db.js called on its own: the last call, with its
                    \* arguments, the store before it and the value returned
    loading,        \* App state: loading
    deletes         \* handleDelete invocations (async), in creation order

appVars  == <<scanning, latestWeight, measurements, alerts>>
dbVars   == <<store, nextId, clock>>
gattVars == <<connected, notifying, listening, service, charUUID, gattLog,
              handle>>
downVars == <<teardowns, raised, dropped>>
evVars   == <<frameLog, onDataLog, cbs, value, result>>
envVars  == <<hasBluetooth, userHeight>>
fnVars   == <<bmiWeight, bmiHeight, bmiResult, categoryArg, category,
              dbCall>>
uiVars   == <<loading, deletes>>

vars == <<hasBluetooth, userHeight, scanning, latestWeight, measurements,
          alerts, store, nextId, clock, nSessions, pc, choosers, connected,
          notifying, listening, service, charUUID, gattLog, handle,
          teardowns, raised, dropped, frameLog, onDataLog, cbs, value, result,
          bmiWeight, bmiHeight, bmiResult, categoryArg, category, dbCall,
          loading, deletes>>

\* user heights the profile may hold (parseInt(form.height))
Heights == {180}

\* notification payloads the scale may send: a short frame, a zero reading
\* and a kg reading (raw 476)
Frames == {<<0, 88>>, <<0, 0, 0>>, <<0, 220, 1>>}

InitApp ==
    /\ hasBluetooth \in BOOLEAN
    /\ userHeight \in Heights
    /\ scanning = FALSE
    /\ latestWeight = NoWeight
    /\ measurements = <<>>
    /\ alerts = 0
    /\ store = <<>>
    /\ nextId = 1
    /\ clock = 1
    /\ nSessions = 0
    /\ pc = [s \in Sessions |-> "notStarted"]
    /\ choosers = [s \in Sessions |-> 0]
    /\ connected = [s \in Sessions |-> FALSE]
    /\ notifying = [s \in Sessions |-> FALSE]
    /\ listening = [s \in Sessions |-> FALSE]
    /\ service = [s \in Sessions |-> Undefined]
    /\ charUUID = [s \in Sessions |-> Undefined]
    /\ gattLog = [s \in Sessions |-> <<>>]
    /\ handle = [s \in Sessions |-> FALSE]
    /\ teardowns = [s \in Sessions |-> 0]
    /\ raised = [s \in Sessions |-> FALSE]
    /\ dropped = [s \in Sessions |-> 0]
    /\ frameLog = [s \in Sessions |-> <<>>]
    /\ onDataLog = [s \in Sessions |-> <<>>]
    /\ cbs = <<>>
    /\ loading = FALSE
    /\ deletes = <<>>

\* no call of calculateBMI, of getBMICategory or of db.js on its own
InitFn ==
    /\ bmiWeight = Absent
    /\ bmiHeight = Absent
    /\ bmiResult = Absent
    /\ categoryArg = 0
    /\ category = NoCategory
    /\ dbCall = NoCall

Init ==
    /\ InitApp
    /\ InitFn
    /\ value = <<>>
    /\ result = Unparsed

\* the weights onData can be called with, and calculateBMI(data.weight,
\* user.height) for each of them and each height, computed once
FrameWeights ==
    {parseScaleData(f).weight : f \in {g \in Frames : Len(g) >= MinFrameLength}}

BMIOf ==
    [weight \in FrameWeights, height \in Heights |->
        calculateBMI(Num(weight), Num(height))]

\* --------------------------------------------------------------- helpers
RECURSIVE SumLen(_, _)
SumLen(f, n) == IF n = 0 THEN 0 ELSE Len(f[n]) + SumLen(f, n - 1)

\* notification events delivered so far, over all sessions
TotalFrames == SumLen(frameLog, MaxSessions)

RECURSIVE Sum(_, _)
Sum(f, n) == IF n = 0 THEN 0 ELSE f[n] + Sum(f, n - 1)

\* notification events not fired so far, over all sessions
TotalDropped == Sum(dropped, MaxSessions)

\* one GATT request and its outcome, appended to the session's log
Logged(s, op, svc, uuid, ok) ==
    [gattLog EXCEPT ![s] =
        Append(@, [op |-> op, svc |-> svc, uuid |-> uuid, ok |-> ok])]

\* ------------------------------------------------------------ persistence
\* r comes before q in orderBy('createdAt').reverse(): later createdAt
\* first, and for equal keys the later primary key first
Newer(r, q) ==
    \/ r.createdAt > q.createdAt
    \/ r.createdAt = q.createdAt /\ r.id > q.id

RECURSIVE SortNewest(_)
SortNewest(recs) ==
    IF recs = {} THEN <<>>
    ELSE LET top == CHOOSE r \in recs : \A q \in recs \ {r} : Newer(r, q)
         IN  <<top>> \o SortNewest(recs \ {top})

Range(seq) == {seq[i] : i \in 1..Len(seq)}

\* r comes before q in orderBy('createdAt'): earlier createdAt first, and
\* for equal keys the earlier primary key first
Older(r, q) ==
    \/ r.createdAt < q.createdAt
    \/ r.createdAt = q.createdAt /\ r.id < q.id

RECURSIVE SortOldest(_)
SortOldest(recs) ==
    IF recs = {} THEN <<>>
    ELSE LET top == CHOOSE r \in recs : \A q \in recs \ {r} : Older(r, q)
         IN  <<top>> \o SortOldest(recs \ {top})

\* variant: orderBy('createdAt').limit(limit).toArray(), without reverse()
getMeasurements_NoReverse(limit) ==
    LET all == SortOldest(Range(store))
    IN  SubSeq(all, 1, IF Len(all) < limit THEN Len(all) ELSE limit)

getMeasurements(limit) ==
    LET all == SortNewest(Range(store))
    IN  SubSeq(all, 1, IF Len(all) < limit THEN Len(all) ELSE limit)

\* db.measurements.add({...measurement, createdAt: new Date()}): the ++id
\* key generator gives the next id, and now is what new Date() returned
addMeasurement(measurement, now) ==
    /\ store' = Append(store, [id        |-> nextId,
                               weight    |-> measurement.weight,
                               bmi       |-> measurement.bmi,
                               createdAt |-> now])
    /\ nextId' = nextId + 1

\* db.measurements.delete(id): a key that is not stored deletes nothing
deleteMeasurement(id) ==
    LET Kept(r) == r.id # id
    IN  /\ store' = SelectSeq(store, Kept)
        /\ UNCHANGED nextId

\* ----------------------------------------------------------- startWeighing
\* variant: a catch block without setScanning(false)
Catch_KeepsScanning(s) ==
    /\ pc' = [pc EXCEPT ![s] = "failed"]
    /\ scanning' = scanning
    /\ alerts' = alerts + 1

\* the catch block of startWeighing: console.error, setScanning(false),
\* one alert
Catch(s) ==
    /\ pc' = [pc EXCEPT ![s] = "failed"]
    /\ scanning' = FALSE
    /\ alerts' = alerts + 1

StartWeighing ==
    /\ ~loading
    /\ ~scanning
    /\ nSessions < MaxSessions
    /\ nSessions' = nSessions + 1
    /\ scanning' = TRUE
    /\ pc' = [pc EXCEPT ![nSessions + 1] = "requestScale"]
    /\ UNCHANGED <<latestWeight, measurements, alerts, choosers>>
    /\ UNCHANGED <<dbVars, gattVars, downVars, evVars, envVars>>
    /\ UNCHANGED fnVars
    /\ UNCHANGED uiVars

RequestScale(s) ==
    /\ pc[s] = "requestScale"
    /\ IF ~hasBluetooth
       THEN /\ Catch(s)
            /\ UNCHANGED choosers
       ELSE /\ choosers' = [choosers EXCEPT ![s] = @ + 1]
            /\ \E ok \in BOOLEAN :
                 IF ok
                 THEN /\ pc' = [pc EXCEPT ![s] = "connect"]
                      /\ UNCHANGED <<scanning, alerts>>
                 ELSE Catch(s)
    /\ UNCHANGED <<latestWeight, measurements, nSessions>>
    /\ UNCHANGED <<dbVars, gattVars, downVars, evVars, envVars>>
    /\ UNCHANGED fnVars
    /\ UNCHANGED uiVars

\* ------------------------------------------------------- subscribeToWeight
Connect(s) ==
    /\ pc[s] = "connect"
    /\ \E ok \in BOOLEAN :
         /\ gattLog' = Logged(s, "connect", Undefined, Undefined, ok)
         /\ IF ok
            THEN /\ connected' = [connected EXCEPT ![s] = TRUE]
                 /\ pc' = [pc EXCEPT ![s] = "getPrimaryService"]
                 /\ UNCHANGED <<scanning, alerts>>
            ELSE /\ Catch(s)
                 /\ UNCHANGED connected
    /\ UNCHANGED <<latestWeight, measurements, nSessions, choosers>>
    /\ UNCHANGED <<notifying, listening, service, charUUID, handle>>
    /\ UNCHANGED <<dbVars, downVars, evVars, envVars>>
    /\ UNCHANGED fnVars
    /\ UNCHANGED uiVars

GetPrimaryService(s) ==
    /\ pc[s] = "getPrimaryService"
    /\ \E ok \in BOOLEAN :
         /\ gattLog' = Logged(s, "getPrimaryService", Undefined,
                              WEIGHT_SCALE_SERVICE_UUID, ok)
         /\ IF ok
            THEN /\ service' = [service EXCEPT ![s] = WEIGHT_SCALE_SERVICE_UUID]
                 /\ charUUID' = [charUUID EXCEPT
                                   ![s] = WEIGHT_MEASUREMENT_CHAR_UUID]
                 /\ pc' = [pc EXCEPT ![s] = "getCharacteristic"]
            ELSE /\ pc' = [pc EXCEPT ![s] = "getSecondaryService"]
                 /\ UNCHANGED <<service, charUUID>>
    /\ UNCHANGED <<appVars, nSessions, choosers>>
    /\ UNCHANGED <<connected, notifying, listening, handle>>
    /\ UNCHANGED <<dbVars, downVars, evVars, envVars>>
    /\ UNCHANGED fnVars
    /\ UNCHANGED uiVars

\* variant: the fallback keeps the primary pair's characteristic
GetSecondaryService_StaleChar(s) ==
    /\ pc[s] = "getSecondaryService"
    /\ \E ok \in BOOLEAN :
         /\ gattLog' = Logged(s, "getPrimaryService", Undefined,
                              BODY_COMPOSITION_SERVICE_UUID, ok)
         /\ IF ok
            THEN /\ service' = [service EXCEPT
                                  ![s] = BODY_COMPOSITION_SERVICE_UUID]
                 /\ charUUID' = [charUUID EXCEPT
                                   ![s] = WEIGHT_MEASUREMENT_CHAR_UUID]
                 /\ pc' = [pc EXCEPT ![s] = "getCharacteristic"]
                 /\ UNCHANGED <<scanning, alerts>>
            ELSE /\ Catch(s)
                 /\ UNCHANGED <<service, charUUID>>
    /\ UNCHANGED <<latestWeight, measurements, nSessions, choosers>>
    /\ UNCHANGED <<connected, notifying, listening, handle>>
    /\ UNCHANGED <<dbVars, downVars, evVars, envVars>>
    /\ UNCHANGED fnVars
    /\ UNCHANGED uiVars

GetSecondaryService(s) ==
    /\ pc[s] = "getSecondaryService"
    /\ \E ok \in BOOLEAN :
         /\ gattLog' = Logged(s, "getPrimaryService", Undefined,
                              BODY_COMPOSITION_SERVICE_UUID, ok)
         /\ IF ok
            THEN /\ service' = [service EXCEPT
                                  ![s] = BODY_COMPOSITION_SERVICE_UUID]
                 /\ charUUID' = [charUUID EXCEPT
                                   ![s] = BODY_COMP_MEASUREMENT_CHAR_UUID]
                 /\ pc' = [pc EXCEPT ![s] = "getCharacteristic"]
                 /\ UNCHANGED <<scanning, alerts>>
            ELSE /\ Catch(s)
                 /\ UNCHANGED <<service, charUUID>>
    /\ UNCHANGED <<latestWeight, measurements, nSessions, choosers>>
    /\ UNCHANGED <<connected, notifying, listening, handle>>
    /\ UNCHANGED <<dbVars, downVars, evVars, envVars>>
    /\ UNCHANGED fnVars
    /\ UNCHANGED uiVars

\* variant: service.getCharacteristic(WEIGHT_MEASUREMENT_CHAR_UUID)
GetCharacteristic_PrimaryChar(s) ==
    /\ pc[s] = "getCharacteristic"
    /\ \E ok \in BOOLEAN :
         /\ gattLog' = Logged(s, "getCharacteristic", service[s],
                              WEIGHT_MEASUREMENT_CHAR_UUID, ok)
         /\ IF ok
            THEN /\ pc' = [pc EXCEPT ![s] = "startNotifications"]
                 /\ UNCHANGED <<scanning, alerts>>
            ELSE Catch(s)
    /\ UNCHANGED <<latestWeight, measurements, nSessions, choosers>>
    /\ UNCHANGED <<connected, notifying, listening, service, charUUID, handle>>
    /\ UNCHANGED <<dbVars, downVars, evVars, envVars>>
    /\ UNCHANGED fnVars
    /\ UNCHANGED uiVars

GetCharacteristic(s) ==
    /\ pc[s] = "getCharacteristic"
    /\ \E ok \in BOOLEAN :
         /\ gattLog' = Logged(s, "getCharacteristic", service[s],
                              charUUID[s], ok)
         /\ IF ok
            THEN /\ pc' = [pc EXCEPT ![s] = "startNotifications"]
                 /\ UNCHANGED <<scanning, alerts>>
            ELSE Catch(s)
    /\ UNCHANGED <<latestWeight, measurements, nSessions, choosers>>
    /\ UNCHANGED <<connected, notifying, listening, service, charUUID, handle>>
    /\ UNCHANGED <<dbVars, downVars, evVars, envVars>>
    /\ UNCHANGED fnVars
    /\ UNCHANGED uiVars

\* variant: startNotifications() is not awaited, so its rejection is lost
StartNotifications_NotAwaited(s) ==
    /\ pc[s] = "startNotifications"
    /\ \E ok \in BOOLEAN :
         /\ gattLog' = Logged(s, "startNotifications", service[s],
                              charUUID[s], ok)
         /\ notifying' = [notifying EXCEPT ![s] = ok]
         /\ listening' = [listening EXCEPT ![s] = TRUE]
         /\ handle' = [handle EXCEPT ![s] = TRUE]
         /\ pc' = [pc EXCEPT ![s] = "subscribed"]
         /\ UNCHANGED <<scanning, alerts>>
    /\ UNCHANGED <<latestWeight, measurements, nSessions, choosers>>
    /\ UNCHANGED <<connected, service, charUUID>>
    /\ UNCHANGED <<dbVars, downVars, evVars, envVars>>
    /\ UNCHANGED fnVars
    /\ UNCHANGED uiVars

\* await startNotifications(), then addEventListener and return the closure
StartNotifications(s) ==
    /\ pc[s] = "startNotifications"
    /\ \E ok \in BOOLEAN :
         /\ gattLog' = Logged(s, "startNotifications", service[s],
                              charUUID[s], ok)
         /\ IF ok
            THEN /\ notifying' = [notifying EXCEPT ![s] = TRUE]
                 /\ listening' = [listening EXCEPT ![s] = TRUE]
                 /\ handle' = [handle EXCEPT ![s] = TRUE]
                 /\ pc' = [pc EXCEPT ![s] = "subscribed"]
                 /\ UNCHANGED <<scanning, alerts>>
            ELSE /\ Catch(s)
                 /\ UNCHANGED <<notifying, listening, handle>>
    /\ UNCHANGED <<latestWeight, measurements, nSessions, choosers>>
    /\ UNCHANGED <<connected, service, charUUID>>
    /\ UNCHANGED <<dbVars, downVars, evVars, envVars>>
    /\ UNCHANGED fnVars
    /\ UNCHANGED uiVars

\* variant: the closure throws when the connection is already closed
cleanup_ThrowsWhenClosed(s) ==
    /\ teardowns' = [teardowns EXCEPT ![s] = @ + 1]
    /\ gattLog' = [gattLog EXCEPT ![s] =
                     @ \o << [op |-> "stopNotifications", svc |-> service[s],
                              uuid |-> charUUID[s], ok |-> connected[s]] >>]
    /\ notifying' = [notifying EXCEPT ![s] = FALSE]
    /\ connected' = [connected EXCEPT ![s] = FALSE]
    /\ raised' = [raised EXCEPT ![s] = @ \/ ~connected[s]]

\* variant: the closure stops the notifications and leaves the server alone
cleanup_NoDisconnect(s) ==
    /\ teardowns' = [teardowns EXCEPT ![s] = @ + 1]
    /\ gattLog' = [gattLog EXCEPT ![s] =
                     @ \o << [op |-> "stopNotifications", svc |-> service[s],
                              uuid |-> charUUID[s], ok |-> connected[s]] >>]
    /\ notifying' = [notifying EXCEPT ![s] = FALSE]
    /\ UNCHANGED <<connected, raised>>

\* variant: the closure awaits stopNotifications() before it disconnects,
\* so that its invocation returns with the notifications still running
cleanup_AwaitsStop(s) ==
    /\ teardowns' = [teardowns EXCEPT ![s] = @ + 1]
    /\ gattLog' = [gattLog EXCEPT ![s] =
                     @ \o << [op |-> "stopNotifications", svc |-> service[s],
                              uuid |-> charUUID[s], ok |-> connected[s]] >>]
    /\ UNCHANGED <<notifying, connected, raised>>

\* the closure returned by subscribeToWeight: characteristic
\* .stopNotifications() (its promise is dropped, so a rejection is not an
\* exception of this call) and server.disconnect(), which also ends every
\* notification of the connection and does nothing on a closed one
cleanup(s) ==
    /\ teardowns' = [teardowns EXCEPT ![s] = @ + 1]
    /\ gattLog' = [gattLog EXCEPT ![s] =
                     @ \o << [op |-> "stopNotifications", svc |-> service[s],
                              uuid |-> charUUID[s], ok |-> connected[s]],
                             [op |-> "disconnect", svc |-> Undefined,
                              uuid |-> Undefined, ok |-> TRUE] >>]
    /\ notifying' = [notifying EXCEPT ![s] = FALSE]
    /\ connected' = [connected EXCEPT ![s] = FALSE]
    /\ UNCHANGED raised

\* --------------------------------------------------- notification events
\* variant: calculateBMI(data.weight, user.heigth), a property the profile
\* does not have, so that the height is undefined
onData_HeightMissing(s, data, now) ==
    /\ onDataLog' = [onDataLog EXCEPT ![s] = Append(@, data)]
    /\ latestWeight' = data.weight
    /\ IF data.isStable
       THEN cbs' = Append(cbs,
                     [sess |-> s,
                      rec  |-> [weight    |-> data.weight,
                                bmi       |-> calculateBMI(Num(data.weight),
                                                           Absent),
                                createdAt |-> now],
                      pc   |-> "addMeasurement"])
       ELSE UNCHANGED cbs

\* the onData callback of startWeighing up to its first await:
\* setLatestWeight, calculateBMI, and the call of addMeasurement, which
\* reads new Date() before it suspends
onData(s, data, now) ==
    /\ onDataLog' = [onDataLog EXCEPT ![s] = Append(@, data)]
    /\ latestWeight' = data.weight
    /\ IF data.isStable
       THEN cbs' = Append(cbs,
                     [sess |-> s,
                      rec  |-> [weight    |-> data.weight,
                                bmi       |-> BMIOf[data.weight, userHeight],
                                createdAt |-> now],
                      pc   |-> "addMeasurement"])
       ELSE UNCHANGED cbs

\* the 'characteristicvaluechanged' listener, run to completion
ValueChanged(s, frame) ==
    /\ frameLog' = [frameLog EXCEPT ![s] = Append(@, frame)]
    /\ value' = frame
    /\ result' = parseScaleData(frame)
    /\ \E now \in {clock, clock + 1} :
         /\ clock' = now
         /\ IF Truthy(result')
            THEN onData(s, result', now)
            ELSE UNCHANGED <<onDataLog, latestWeight, cbs>>

\* a notification of a subscribed, connected session fires the event
FrameArrives(s, frame) ==
    /\ listening[s] /\ connected[s] /\ notifying[s]
    /\ TotalFrames + TotalDropped < MaxFrames
    /\ ValueChanged(s, frame)
    /\ UNCHANGED <<scanning, measurements, alerts, store, nextId>>
    /\ UNCHANGED <<nSessions, pc, choosers, gattVars, downVars, envVars>>
    /\ UNCHANGED fnVars
    /\ UNCHANGED uiVars

\* a notification that the session received while it was subscribed, and
\* whose event task runs after the teardown closure was invoked: the
\* platform fires the event only if the server is still connected
LateFrame(s, frame) ==
    /\ listening[s] /\ teardowns[s] >= 1
    /\ TotalFrames + TotalDropped < MaxFrames
    /\ IF connected[s]
       THEN /\ ValueChanged(s, frame)
            /\ UNCHANGED dropped
       ELSE /\ dropped' = [dropped EXCEPT ![s] = @ + 1]
            /\ UNCHANGED <<frameLog, value, result, clock, onDataLog,
                           latestWeight, cbs>>
    /\ UNCHANGED <<scanning, measurements, alerts, store, nextId>>
    /\ UNCHANGED <<nSessions, pc, choosers, gattVars, envVars>>
    /\ UNCHANGED <<teardowns, raised>>
    /\ UNCHANGED fnVars
    /\ UNCHANGED uiVars

\* await addMeasurement(...) settles
CbAdd(i) ==
    /\ i \in 1..Len(cbs)
    /\ cbs[i].pc = "addMeasurement"
    /\ \E ok \in BOOLEAN :
         IF ok
         THEN /\ store' = Append(store,
                            [id        |-> nextId,
                             weight    |-> cbs[i].rec.weight,
                             bmi       |-> cbs[i].rec.bmi,
                             createdAt |-> cbs[i].rec.createdAt])
              /\ nextId' = nextId + 1
              /\ cbs' = [cbs EXCEPT ![i].pc = "getMeasurements"]
         ELSE /\ cbs' = [cbs EXCEPT ![i].pc = "rejected"]
              /\ UNCHANGED <<store, nextId>>
    /\ UNCHANGED <<appVars, clock, nSessions, pc, choosers>>
    /\ UNCHANGED <<gattVars, downVars, envVars>>
    /\ UNCHANGED <<frameLog, onDataLog, value, result>>
    /\ UNCHANGED fnVars
    /\ UNCHANGED uiVars

\* await getMeasurements(10) settles; then setMeasurements, cleanup(),
\* setScanning(false)
CbGet(i) ==
    /\ i \in 1..Len(cbs)
    /\ cbs[i].pc = "getMeasurements"
    /\ \E ok \in BOOLEAN :
         IF ok
         THEN /\ measurements' = getMeasurements(HistoryLimit)
              /\ cleanup(cbs[i].sess)
              /\ scanning' = FALSE
              /\ cbs' = [cbs EXCEPT ![i].pc = "done"]
         ELSE /\ cbs' = [cbs EXCEPT ![i].pc = "rejected"]
              /\ UNCHANGED <<measurements, scanning, teardowns, raised,
                             gattLog, notifying, connected>>
    /\ UNCHANGED <<latestWeight, alerts, dbVars, nSessions, pc, choosers>>
    /\ UNCHANGED <<listening, service, charUUID, handle, envVars>>
    /\ UNCHANGED <<frameLog, onDataLog, value, result, dropped>>
    /\ UNCHANGED fnVars
    /\ UNCHANGED uiVars

Next ==
    \/ StartWeighing
    \/ \E s \in Sessions : RequestScale(s)
    \/ \E s \in Sessions : Connect(s)
    \/ \E s \in Sessions : GetPrimaryService(s)
    \/ \E s \in Sessions : GetSecondaryService(s)
    \/ \E s \in Sessions : GetCharacteristic(s)
    \/ \E s \in Sessions : StartNotifications(s)
    \/ \E s \in Sessions, frame \in Frames : FrameArrives(s, frame)
    \/ \E s \in Sessions, frame \in Frames : LateFrame(s, frame)
    \/ \E i \in 1..MaxFrames : CbAdd(i)
    \/ \E i \in 1..MaxFrames : CbGet(i)

Spec == Init /\ [][Next]_vars

\* every promise the code awaits settles: the steps of startWeighing and of
\* the onData callbacks are taken once they can be; when the user starts a
\* session and when the scale notifies is left open
Fairness ==
    /\ \A s \in Sessions :
         /\ WF_vars(RequestScale(s))
         /\ WF_vars(Connect(s))
         /\ WF_vars(GetPrimaryService(s))
         /\ WF_vars(GetSecondaryService(s))
         /\ WF_vars(GetCharacteristic(s))
         /\ WF_vars(StartNotifications(s))
    /\ \A i \in 1..MaxFrames : WF_vars(CbAdd(i)) /\ WF_vars(CbGet(i))

SpecFair == Spec /\ Fairness

\* ------------------------------------------------- the decoder on its own
\* flag bytes that differ in bit 0 and in bits 1-7
FlagBytes == {0, 1, 2, 3, 254, 255}

\* DataViews handed to parseScaleData: frames too short to decode, frames of
\* exactly three bytes, and frames with a byte after offset 2
DecodeInputs ==
    {<<>>, <<1>>, <<0, 88>>}
    \cup {<<f, lo, hi>> : f \in FlagBytes, lo \in 0..255, hi \in 0..MaxHiByte}
    \cup {<<f, lo, hi, 255>> :
            f \in FlagBytes, lo \in 0..255, hi \in 0..MaxHiByte}

InitDecode ==
    /\ InitApp
    /\ InitFn
    /\ value \in DecodeInputs
    /\ result = Unparsed

\* const result = parseScaleData(value)
Decode ==
    /\ result = Unparsed
    /\ result' = parseScaleData(value)
    /\ UNCHANGED <<appVars, dbVars, gattVars, downVars, envVars>>
    /\ UNCHANGED <<nSessions, pc, choosers, frameLog, onDataLog, cbs, value>>
    /\ UNCHANGED fnVars
    /\ UNCHANGED uiVars

NextDecode == Decode

SpecDecode == InitDecode /\ [][NextDecode]_vars

\* ----------------------------------------------- calculateBMI on its own
\* weights in hundredths of a kg and heights in cm: absent, negative, zero,
\* and positive ones, among them 70 kg and 175 cm, and pairs whose quotient
\* is halfway between two tenths (6.76 kg and 104 cm: 62.5 tenths)
WeightArgs ==
    {Absent} \cup {Num(n) : n \in {-7000, -1, 0, 1, 238, 676, 5000, 7000,
                                   9999, 65535}}

HeightArgs ==
    {Absent} \cup {Num(n) : n \in {-175, 0, 1, 104, 150, 160, 175, 180, 220}}

InitBMI ==
    /\ InitApp
    /\ value = <<>>
    /\ result = Unparsed
    /\ bmiWeight \in WeightArgs
    /\ bmiHeight \in HeightArgs
    /\ bmiResult = Absent
    /\ categoryArg = 0
    /\ category = NoCategory
    /\ dbCall = NoCall

\* const bmi = calculateBMI(weight, height)
ComputeBMI ==
    /\ bmiResult = Absent
    /\ bmiResult' = Num(calculateBMI(bmiWeight, bmiHeight))
    /\ UNCHANGED <<appVars, dbVars, gattVars, downVars, envVars, evVars>>
    /\ UNCHANGED <<nSessions, pc, choosers>>
    /\ UNCHANGED <<bmiWeight, bmiHeight, categoryArg, category, dbCall>>
    /\ UNCHANGED uiVars

NextBMI == ComputeBMI

SpecBMI == InitBMI /\ [][NextBMI]_vars

\* --------------------------------------------- getBMICategory on its own
\* bmi values in hundredths: every hundredth from 17.00 to 31.00, and a
\* negative, a zero and a large one
CategoryArgs == {-2290, 0, 10000} \cup (1700..3100)

InitCategory ==
    /\ InitApp
    /\ value = <<>>
    /\ result = Unparsed
    /\ bmiWeight = Absent
    /\ bmiHeight = Absent
    /\ bmiResult = Absent
    /\ categoryArg \in CategoryArgs
    /\ category = NoCategory
    /\ dbCall = NoCall

\* getBMICategory(bmi)
Classify ==
    /\ category = NoCategory
    /\ category' = getBMICategory(categoryArg)
    /\ UNCHANGED <<appVars, dbVars, gattVars, downVars, envVars, evVars>>
    /\ UNCHANGED <<nSessions, pc, choosers>>
    /\ UNCHANGED <<bmiWeight, bmiHeight, bmiResult, categoryArg, dbCall>>
    /\ UNCHANGED uiVars

NextCategory == Classify

SpecCategory == InitCategory /\ [][NextCategory]_vars

\* ----------------------------------------------------- db.js on its own
\* measurements the App hands to addMeasurement
DbMeasurements == {[weight |-> 238, bmi |-> 7], [weight |-> 0, bmi |-> 0]}

\* limits given to getMeasurements, the App's among them
DbLimits == {1, 2, HistoryLimit}

InitDb ==
    /\ InitApp
    /\ InitFn
    /\ value = <<>>
    /\ result = Unparsed

\* await addMeasurement(measurement)
DbAdd ==
    /\ nextId <= MaxAdds
    /\ \E measurement \in DbMeasurements, now \in {clock, clock + 1} :
         /\ addMeasurement(measurement, now)
         /\ clock' = now
         /\ dbCall' = [op |-> "add", before |-> store, ret |-> nextId]
    /\ UNCHANGED <<appVars, gattVars, downVars, envVars, evVars>>
    /\ UNCHANGED <<nSessions, pc, choosers>>
    /\ UNCHANGED <<bmiWeight, bmiHeight, bmiResult, categoryArg, category>>
    /\ UNCHANGED uiVars

\* await deleteMeasurement(id)
DbDelete ==
    /\ \E id \in 1..MaxAdds :
         /\ deleteMeasurement(id)
         /\ dbCall' = [op |-> "delete", before |-> store, id |-> id]
    /\ UNCHANGED <<appVars, gattVars, downVars, envVars, evVars>>
    /\ UNCHANGED <<clock, nSessions, pc, choosers>>
    /\ UNCHANGED <<bmiWeight, bmiHeight, bmiResult, categoryArg, category>>
    /\ UNCHANGED uiVars

\* await getMeasurements(limit)
DbGet ==
    /\ \E limit \in DbLimits :
         dbCall' = [op |-> "get", limit |-> limit,
                    ret |-> getMeasurements(limit)]
    /\ UNCHANGED <<appVars, dbVars, gattVars, downVars, envVars, evVars>>
    /\ UNCHANGED <<nSessions, pc, choosers>>
    /\ UNCHANGED <<bmiWeight, bmiHeight, bmiResult, categoryArg, category>>
    /\ UNCHANGED uiVars

NextDb == DbAdd \/ DbDelete \/ DbGet

SpecDb == InitDb /\ [][NextDb]_vars

\* ------------------------------------------- the App with load and delete
\* what db.measurements may hold when the App is mounted: nothing, or
\* records of earlier visits (70.00 kg, then 70.50 kg, at height 180)
PriorStores ==
    { <<>>,
      << [id |-> 1, weight |-> 7000, bmi |-> 216, createdAt |-> -1] >>,
      << [id |-> 1, weight |-> 7000, bmi |-> 216, createdAt |-> -1],
         [id |-> 2, weight |-> 7050, bmi |-> 218, createdAt |-> 0] >> }

\* the App as mounted: the useState defaults, before init() has run
InitMounted ==
    /\ hasBluetooth \in BOOLEAN
    /\ userHeight \in Heights
    /\ scanning = FALSE
    /\ latestWeight = NoWeight
    /\ measurements = <<>>
    /\ alerts = 0
    /\ store \in PriorStores
    /\ nextId = Len(store) + 1
    /\ clock = 1
    /\ nSessions = 0
    /\ pc = [s \in Sessions |-> "notStarted"]
    /\ choosers = [s \in Sessions |-> 0]
    /\ connected = [s \in Sessions |-> FALSE]
    /\ notifying = [s \in Sessions |-> FALSE]
    /\ listening = [s \in Sessions |-> FALSE]
    /\ service = [s \in Sessions |-> Undefined]
    /\ charUUID = [s \in Sessions |-> Undefined]
    /\ gattLog = [s \in Sessions |-> <<>>]
    /\ handle = [s \in Sessions |-> FALSE]
    /\ teardowns = [s \in Sessions |-> 0]
    /\ raised = [s \in Sessions |-> FALSE]
    /\ dropped = [s \in Sessions |-> 0]
    /\ frameLog = [s \in Sessions |-> <<>>]
    /\ onDataLog = [s \in Sessions |-> <<>>]
    /\ cbs = <<>>
    /\ loading = TRUE
    /\ deletes = <<>>
    /\ InitFn
    /\ value = <<>>
    /\ result = Unparsed

\* init() of the mount effect, for a stored user, once getUser and
\* getMeasurements(10) have returned: setMeasurements, setLatestWeight of
\* the first record if there is one, setLoading(false)
init ==
    /\ loading
    /\ LET data == getMeasurements(HistoryLimit)
       IN  /\ measurements' = data
           /\ latestWeight' = IF Len(data) > 0 THEN data[1].weight
                                              ELSE latestWeight
    /\ loading' = FALSE
    /\ UNCHANGED <<scanning, alerts, deletes>>
    /\ UNCHANGED <<dbVars, gattVars, downVars, evVars, envVars>>
    /\ UNCHANGED <<nSessions, pc, choosers>>
    /\ UNCHANGED fnVars

\* handleDelete(m.id) from the button of a displayed record, confirmed: up
\* to its first await, the call of deleteMeasurement
handleDelete(id) ==
    /\ ~loading
    /\ Len(deletes) < MaxDeletes
    /\ \E i \in 1..Len(measurements) : measurements[i].id = id
    /\ deletes' = Append(deletes, [id |-> id, pc |-> "deleteMeasurement"])
    /\ UNCHANGED <<appVars, dbVars, gattVars, downVars, evVars, envVars>>
    /\ UNCHANGED <<nSessions, pc, choosers, loading>>
    /\ UNCHANGED fnVars

\* await deleteMeasurement(id) settles
DeleteSettles(i) ==
    /\ i \in 1..Len(deletes)
    /\ deletes[i].pc = "deleteMeasurement"
    /\ \E ok \in BOOLEAN :
         IF ok
         THEN /\ deleteMeasurement(deletes[i].id)
              /\ deletes' = [deletes EXCEPT ![i].pc = "getMeasurements"]
         ELSE /\ deletes' = [deletes EXCEPT ![i].pc = "rejected"]
              /\ UNCHANGED <<store, nextId>>
    /\ UNCHANGED <<appVars, clock, gattVars, downVars, evVars, envVars>>
    /\ UNCHANGED <<nSessions, pc, choosers, loading>>
    /\ UNCHANGED fnVars

\* await getMeasurements(10) of handleDelete settles; then setMeasurements
RereadSettles(i) ==
    /\ i \in 1..Len(deletes)
    /\ deletes[i].pc = "getMeasurements"
    /\ \E ok \in BOOLEAN :
         IF ok
         THEN /\ measurements' = getMeasurements(HistoryLimit)
              /\ deletes' = [deletes EXCEPT ![i].pc = "done"]
         ELSE /\ deletes' = [deletes EXCEPT ![i].pc = "rejected"]
              /\ UNCHANGED measurements
    /\ UNCHANGED <<scanning, latestWeight, alerts>>
    /\ UNCHANGED <<dbVars, gattVars, downVars, evVars, envVars>>
    /\ UNCHANGED <<nSessions, pc, choosers, loading>>
    /\ UNCHANGED fnVars

NextApp ==
    \/ Next
    \/ init
    \/ \E id \in {m.id : m \in Range(measurements)} : handleDelete(id)
    \/ \E i \in 1..MaxDeletes : DeleteSettles(i)
    \/ \E i \in 1..MaxDeletes : RereadSettles(i)

SpecApp == InitMounted /\ [][NextApp]_vars

\* ============================================================= properties
LogEntries(s) == {gattLog[s][i] : i \in 1..Len(gattLog[s])}

ServiceFailed(s, uuid) ==
    \E e \in LogEntries(s) :
        e.op = "getPrimaryService" /\ e.uuid = uuid /\ ~e.ok

ServiceResolved(s, uuid) ==
    \E e \in LogEntries(s) :
        e.op = "getPrimaryService" /\ e.uuid = uuid /\ e.ok

StepOk(s, op) == \E e \in LogEntries(s) : e.op = op /\ e.ok

\* the negotiator's Ready: the closure is out, the connection is open and
\* the characteristic notifies
Ready(s) == pc[s] = "subscribed" /\ handle[s] /\ connected[s] /\ notifying[s]

LastFrame(s) == frameLog[s][Len(frameLog[s])]

\* the step is a notification event of session s
FrameStep(s) == Len(frameLog'[s]) > Len(frameLog[s])

\* the step is an invocation of session s's teardown closure
TeardownStep(s) == teardowns'[s] > teardowns[s]

\* C1: when connect succeeded and both service resolutions failed, the
\* connection is not open in the state where startWeighing's failure
\* handling has run.
C1_ClosedOnServiceNotFound ==
    \A s \in Sessions :
        (/\ pc[s] = "failed"
         /\ ServiceFailed(s, 6173)
         /\ ServiceFailed(s, 6171)) => ~connected[s]

\* C2: a session whose primary service resolution failed and whose secondary
\* resolution succeeded is bound to characteristic 0x2A9C of service 0x181B
\* from then on, in Ready too, and no request of the session ever names
\* characteristic 0x2A9D.
C2_FallbackBindsSecondary ==
    \A s \in Sessions :
        (ServiceFailed(s, 6173) /\ ServiceResolved(s, 6171)) =>
            /\ charUUID[s] = 10908
            /\ service[s] = 6171
            /\ \A e \in LogEntries(s) :
                 e.op \in {"getCharacteristic", "startNotifications",
                           "stopNotifications"}
                     => e.uuid = 10908 /\ e.svc = 6171

C2_Witness ==
    \E s \in Sessions :
        Ready(s) /\ ServiceFailed(s, 6173) /\ ServiceResolved(s, 6171)

\* C3: the first service request of a session is for 0x181D; a request for
\* 0x181B is made only directly after that one failed; and every
\* characteristic request goes to a service that resolved and names the
\* characteristic paired with it.
C3_PrimaryFirstPairedChar ==
    \A s \in Sessions :
        LET IsSvc(e) == e.op = "getPrimaryService"
            reqs     == SelectSeq(gattLog[s], IsSvc)
        IN  /\ Len(reqs) <= 2
            /\ Len(reqs) >= 1 => reqs[1].uuid = 6173
            /\ Len(reqs) = 2 => ~reqs[1].ok /\ reqs[2].uuid = 6171
            /\ \A i \in 1..Len(gattLog[s]) :
                 gattLog[s][i].op = "getCharacteristic" =>
                    /\ \/ gattLog[s][i].svc = 6173 /\ gattLog[s][i].uuid = 10909
                       \/ gattLog[s][i].svc = 6171 /\ gattLog[s][i].uuid = 10908
                    /\ \E j \in 1..(i - 1) :
                         /\ gattLog[s][j].op = "getPrimaryService"
                         /\ gattLog[s][j].ok
                         /\ gattLog[s][j].uuid = gattLog[s][i].svc

C3_Witness ==
    \E s \in Sessions :
        /\ \E e \in LogEntries(s) : e.op = "getCharacteristic" /\ e.svc = 6171
        /\ ServiceFailed(s, 6173)

\* C4: no invocation of the teardown closure raises, and an invocation after
\* the first leaves the session as the first left it: not notifying, not
\* connected.
C4_TeardownIdempotent ==
    [][\A s \in Sessions :
         TeardownStep(s) =>
            /\ ~raised'[s]
            /\ teardowns[s] >= 1 =>
                 /\ ~connected'[s] /\ ~notifying'[s]
                 /\ connected'[s] = connected[s]
                 /\ notifying'[s] = notifying[s]
                 /\ listening'[s] = listening[s]]_vars

C4_Witness ==
    \E s \in Sessions : teardowns[s] >= 2 /\ ~raised[s] /\ ~connected[s]

\* C5: an invocation of the teardown closure in Ready asks the session's
\* characteristic to stop notifying and leaves the session not notifying and
\* not connected.
C5_TeardownFromReady ==
    [][\A s \in Sessions :
         (TeardownStep(s) /\ Ready(s)) =>
            /\ ~notifying'[s]
            /\ ~connected'[s]
            /\ \E i \in (Len(gattLog[s]) + 1)..Len(gattLog'[s]) :
                 /\ gattLog'[s][i].op = "stopNotifications"
                 /\ gattLog'[s][i].uuid = charUUID[s]
                 /\ gattLog'[s][i].ok]_vars

C5_Witness ==
    \E s \in Sessions :
        /\ teardowns[s] = 1
        /\ handle[s] /\ ~connected[s] /\ ~notifying[s]
        /\ StepOk(s, "stopNotifications")

\* C6: the closure is handed out, and the listener registered, only when
\* connect, a service resolution, the characteristic resolution and the
\* notification start all succeeded; a failed session has no closure, no
\* listener, and onData was never called for it.
C6_NoPartialSession ==
    \A s \in Sessions :
        /\ handle[s] =>
             /\ StepOk(s, "connect")
             /\ StepOk(s, "getPrimaryService")
             /\ StepOk(s, "getCharacteristic")
             /\ StepOk(s, "startNotifications")
        /\ listening[s] => handle[s]
        /\ onDataLog[s] # <<>> => handle[s]
        /\ pc[s] = "failed" =>
             ~handle[s] /\ ~listening[s] /\ onDataLog[s] = <<>>

C6_Witness ==
    \E s \in Sessions :
        /\ pc[s] = "failed"
        /\ StepOk(s, "getCharacteristic")
        /\ ~StepOk(s, "startNotifications")

\* C7: a notification whose frame is shorter than 3 bytes decodes to null
\* and changes nothing else: no onData call, no callback started, no record,
\* no alert, no raise; and callbacks exist only for accepted frames.
C7_ShortFramesDropped ==
    /\ [][\A s \in Sessions :
            (FrameStep(s) /\ Len(frameLog'[s][Len(frameLog'[s])]) < 3) =>
               /\ result' = Null
               /\ UNCHANGED <<onDataLog, cbs, store, latestWeight,
                              measurements, alerts, scanning, raised, pc>>]_vars
    /\ [](\A s \in Sessions :
            LET IsLong(f) == Len(f) >= 3
                Mine(c)   == c.sess = s
            IN  Len(SelectSeq(cbs, Mine))
                    = Len(SelectSeq(frameLog[s], IsLong)))

C7_Witness ==
    \E s \in Sessions :
        /\ frameLog[s] # <<>>
        /\ Len(LastFrame(s)) < 3
        /\ result = Null
        /\ onDataLog[s] = <<>>

\* C8: every notification whose frame has length >= 3 makes, within its own
\* step, exactly one onData call with that frame's decoding, appended after
\* the calls of all earlier frames, and starts that call's callback last in
\* line; no other step makes or removes an onData call; so the calls of a
\* session are always as many as its frames of length >= 3.
C8_ArrivalOrder ==
    /\ [][\A s \in Sessions :
            IF FrameStep(s)
            THEN /\ Len(frameLog'[s]) = Len(frameLog[s]) + 1
                 /\ SubSeq(frameLog'[s], 1, Len(frameLog[s])) = frameLog[s]
                 /\ LET frame == frameLog'[s][Len(frameLog'[s])]
                    IN  IF Len(frame) >= 3
                        THEN /\ onDataLog'[s] = Append(onDataLog[s],
                                                       parseScaleData(frame))
                             /\ Len(cbs') = Len(cbs) + 1
                             /\ cbs'[Len(cbs')].sess = s
                             /\ cbs'[Len(cbs')].rec.weight
                                    = parseScaleData(frame).weight
                        ELSE onDataLog'[s] = onDataLog[s] /\ cbs' = cbs
            ELSE onDataLog'[s] = onDataLog[s] /\ frameLog'[s] = frameLog[s]]_vars
    /\ [](\A s \in Sessions :
            LET IsLong(f) == Len(f) >= 3
            IN  Len(onDataLog[s]) = Len(SelectSeq(frameLog[s], IsLong)))

C8_Witness ==
    \E s \in Sessions :
        /\ Len(onDataLog[s]) = 2
        /\ onDataLog[s][1].weight # onDataLog[s][2].weight

\* C9: every measurement passed to onData has a weight above 0.
C9_PositiveWeight ==
    \A s \in Sessions :
        \A i \in 1..Len(onDataLog[s]) : onDataLog[s][i].weight > 0

\* C10: a frame of length >= 3 decodes to unit lbs exactly when bit 0 of
\* byte 0 is set, to weight raw hundredths for lbs and raw/2 rounded half up
\* for kg, with raw = byte 1 + 256 * byte 2, and to isStable true; nothing
\* else of the frame matters.
C10_DecodeSemantics ==
    (result # Unparsed /\ Len(value) >= 3) =>
        LET raw == value[2] + 256 * value[3]
            lbs == value[1] % 2 = 1
        IN  result = [weight   |-> IF lbs THEN raw ELSE (raw + 1) \div 2,
                      isStable |-> TRUE,
                      unit     |-> IF lbs THEN "lbs" ELSE "kg"]

\* C11: calculateBMI returns 0 when an input is absent, zero or negative,
\* and otherwise the tenth nearest to weight / (height/100)^2: with weight
\* in hundredths and the result in tenths, result * height^2 is within
\* height^2 / 2 of 1000 * weight.
C11_BMIContract ==
    bmiResult # Absent =>
        IF \/ bmiWeight = Absent \/ bmiHeight = Absent
           \/ bmiWeight.n <= 0 \/ bmiHeight.n <= 0
        THEN bmiResult.n = 0
        ELSE LET h2 == bmiHeight.n * bmiHeight.n
             IN  2 * Abs(bmiResult.n * h2 - 1000 * bmiWeight.n) <= h2

\* C12: getBMICategory returns exactly one of the four categories, the one
\* the thresholds name: below 18.5 underweight, from 18.5 and below 25
\* normal, from 25 and below 30 overweight, from 30 obese.
C12_CategoryThresholds ==
    category # NoCategory =>
        LET bmi == categoryArg
        IN  /\ category.status \in {"blue", "green", "orange", "red"}
            /\ category.status = "blue" <=> bmi < 1850
            /\ category.status = "green" <=> (1850 <= bmi /\ bmi < 2500)
            /\ category.status = "orange" <=> (2500 <= bmi /\ bmi < 3000)
            /\ category.status = "red" <=> bmi >= 3000
            /\ category.status = "blue" <=> category.label = "Podvaha"
            /\ category.status = "green" <=> category.label = "Normalna"
            /\ category.status = "orange" <=> category.label = "Nadvaha"
            /\ category.status = "red" <=> category.label = "Obezita"

C12_Witness ==
    /\ categoryArg = 1850
    /\ category.label = "Normalna"

\* the callbacks of session s, in creation order: one per addMeasurement call
CallsOf(s) ==
    LET Mine(c) == c.sess = s
    IN  SelectSeq(cbs, Mine)

\* the frames of session s that the decoder accepts
AcceptedFrames(s) ==
    LET IsLong(f) == Len(f) >= MinFrameLength
    IN  SelectSeq(frameLog[s], IsLong)

\* C13: a session that negotiated and got exactly one accepted frame makes
\* exactly one addMeasurement call, with the decoded weight and with
\* calculateBMI of it and the user's height (frame [0x00,0xDC,0x01] and
\* height 180: 2.38 and 0.7), which stores at most one record; the teardown
\* closure is invoked only once that append has stored its record, and is
\* invoked, exactly once, when the re-read after it has returned.
C13_OneFrameOneAppend ==
    /\ Len(store) <= Len(cbs)
    /\ \A s \in Sessions :
         (handle[s] /\ Len(AcceptedFrames(s)) = 1) =>
            LET calls == CallsOf(s)
                frame == AcceptedFrames(s)[1]
            IN  /\ Len(calls) = 1
                /\ calls[1].rec.weight = onDataLog[s][1].weight
                /\ calls[1].rec.bmi
                     = BMIOf[onDataLog[s][1].weight, userHeight]
                /\ (frame = <<0, 220, 1>> /\ userHeight = 180) =>
                     calls[1].rec.weight = 238 /\ calls[1].rec.bmi = 7
                /\ teardowns[s] >= 1 =>
                     /\ calls[1].pc = "done"
                     /\ \E i \in 1..Len(store) :
                          /\ store[i].weight = calls[1].rec.weight
                          /\ store[i].bmi = calls[1].rec.bmi
                          /\ store[i].createdAt = calls[1].rec.createdAt
                /\ calls[1].pc = "done" =>
                     teardowns[s] = 1 /\ ~connected[s] /\ ~notifying[s]

C13_Witness ==
    \E s \in Sessions :
        /\ ServiceFailed(s, 6173)
        /\ AcceptedFrames(s) = << <<0, 220, 1>> >>
        /\ teardowns[s] = 1
        /\ Len(store) = 1
        /\ store[1].weight = 238
        /\ store[1].bmi = 7

\* C14: a startWeighing invocation that failed at device location, connect,
\* service or characteristic resolution or notification start made no
\* onData and no addMeasurement call and, while it is the latest
\* invocation, leaves scanning false; every failed invocation raised
\* exactly one alert; no invocation opens the chooser or connects more than
\* once, or asks for a characteristic or for notifications more than once;
\* and without Bluetooth no chooser is opened.
C14_SingleFailureOutcome ==
    LET IsFailed(s) == pc[s] = "failed"
        Count(s, op) ==
            LET IsOp(e) == e.op = op
            IN  Len(SelectSeq(gattLog[s], IsOp))
    IN  /\ alerts = Cardinality({s \in Sessions : IsFailed(s)})
        /\ \A s \in Sessions :
             /\ choosers[s] <= 1
             /\ Count(s, "connect") <= 1
             /\ Count(s, "getCharacteristic") <= 1
             /\ Count(s, "startNotifications") <= 1
             /\ ~hasBluetooth => choosers[s] = 0 /\ gattLog[s] = <<>>
             /\ IsFailed(s) =>
                  /\ CallsOf(s) = <<>>
                  /\ onDataLog[s] = <<>>
                  /\ s = nSessions => ~scanning

C14_Witness ==
    \E s \in Sessions :
        /\ pc[s] = "failed"
        /\ choosers[s] = 1
        /\ Len(gattLog[s]) = 1
        /\ gattLog[s][1].op = "connect" /\ ~gattLog[s][1].ok
        /\ ~scanning /\ alerts = 1 /\ store = <<>>

\* C15: a step in which the addMeasurement call of an accepted measurement
\* is rejected runs the failure handling (an alert, scanning false) and
\* records nothing: the store and the displayed list stay as they were.
C15_AppendFailureSurfaced ==
    [][\A i \in 1..Len(cbs) :
         (cbs[i].pc = "addMeasurement" /\ cbs'[i].pc = "rejected") =>
            /\ store' = store
            /\ measurements' = measurements
            /\ ~scanning'
            /\ alerts' = alerts + 1]_vars

\* C16: the ids in the store are distinct. getMeasurements(N) returns
\* min(N, number stored) records, all stored and distinct, in non-increasing
\* createdAt order, and no record left out is newer than one returned.
\* deleteMeasurement(id) leaves the other records as they were, in order,
\* and no record with that id. addMeasurement leaves the records as they
\* were and adds one, with an id above every id given before and with the
\* current time as createdAt.
C16_StoreContract ==
    /\ \A i, j \in 1..Len(store) : store[i].id = store[j].id => i = j
    /\ dbCall.op = "get" =>
         LET ret == dbCall.ret
         IN  /\ Len(ret) <= dbCall.limit
             /\ Len(ret) = IF Len(store) < dbCall.limit
                           THEN Len(store) ELSE dbCall.limit
             /\ \A i \in 1..Len(ret) : ret[i] \in Range(store)
             /\ \A i, j \in 1..Len(ret) :
                  /\ ret[i] = ret[j] => i = j
                  /\ i < j => ret[i].createdAt >= ret[j].createdAt
             /\ \A r \in Range(store) \ Range(ret) :
                  \A i \in 1..Len(ret) : r.createdAt <= ret[i].createdAt
    /\ dbCall.op = "delete" =>
         /\ \A r \in Range(store) : r.id # dbCall.id
         /\ Range(store) = {r \in Range(dbCall.before) : r.id # dbCall.id}
         /\ Len(dbCall.before) - Len(store) <= 1
         /\ \A i, j \in 1..Len(store) :
              i < j => \E k, l \in 1..Len(dbCall.before) :
                          /\ k < l
                          /\ dbCall.before[k] = store[i]
                          /\ dbCall.before[l] = store[j]
    /\ dbCall.op = "add" =>
         /\ Len(store) = Len(dbCall.before) + 1
         /\ SubSeq(store, 1, Len(dbCall.before)) = dbCall.before
         /\ store[Len(store)].id = dbCall.ret
         /\ store[Len(store)].id = nextId - 1
         /\ \A r \in Range(dbCall.before) : r.id < dbCall.ret
         /\ store[Len(store)].createdAt = clock

C16_Witness ==
    /\ dbCall.op = "get"
    /\ dbCall.limit < Len(store)
    /\ Len(dbCall.ret) = dbCall.limit
    /\ nextId > Len(store) + 1
    /\ \E i, j \in 1..Len(store) : store[i].createdAt # store[j].createdAt

\* C17: once the teardown closure of a session has been invoked, no step
\* makes an onData call or starts a callback for that session, whatever
\* notifications arrive afterwards.
C17_NoCallAfterTeardown ==
    [][\A s \in Sessions :
         teardowns[s] >= 1 =>
            /\ onDataLog'[s] = onDataLog[s]
            /\ frameLog'[s] = frameLog[s]
            /\ Len(CallsOf(s)') = Len(CallsOf(s))]_vars

C17_Witness ==
    \E s \in Sessions :
        /\ teardowns[s] >= 1
        /\ dropped[s] >= 1
        /\ Len(onDataLog[s]) = 1

\* C18: of the callbacks of one session, at most one has stored a record.
C18_OneRecordPerSession ==
    \A s \in Sessions :
        LET Stored(c) == c.sess = s /\ c.pc \in {"getMeasurements", "done"}
        IN  Len(SelectSeq(cbs, Stored)) <= 1

\* C19: at most one session has its connection open, and none has while
\* scanning is false.
C19_NoConnectionWhenIdle ==
    /\ Cardinality({s \in Sessions : connected[s]}) <= 1
    /\ ~scanning => \A s \in Sessions : ~connected[s]

\* C20: a session whose connection is open and to which an accepted frame
\* was delivered, or whose characteristic resolution or notification start
\* failed, is eventually disconnected with scanning false.
C20_EventuallyDestroyed ==
    \A s \in Sessions :
        (/\ connected[s]
         /\ \/ onDataLog[s] # <<>>
            \/ \E e \in LogEntries(s) :
                 /\ e.op \in {"getCharacteristic", "startNotifications"}
                 /\ ~e.ok)
        ~> (~connected[s] /\ ~scanning)

\* C21: when the load is over, no session is scanning and the displayed
\* list is not empty, latestWeight is the weight of the list's first, newest
\* record.
C21_LatestIsNewest ==
    (~loading /\ ~scanning /\ measurements # <<>>) =>
        latestWeight = measurements[1].weight

====
